---- MODULE Spec2Model ----
(***************************************************************************)
(* Futures NQ data fetcher: the Retrieval Client (NQDataFetcher, in         *)
(* futures_nq/data_fetcher.py) and its two front ends (run_cli and         *)
(* run_streamlit, in futures_nq/main.py).                                  *)
(*                                                                         *)
(* A pandas DataFrame is a record                                          *)
(*   [iname, index, columns, data]                                         *)
(* iname the index's name (NoName for None), index the index values,       *)
(* columns the column labels in order, data one sequence of cells per row, *)
(* aligned with columns.  A cell is [k |-> kind, v |-> bar]: kind "int" is *)
(* an integer (epoch nanoseconds when it is a timestamp), "ts" a parsed    *)
(* timestamp, any other kind the value of the column of that name.         *)
(*                                                                         *)
(* A path is the sequence of its components; <<>> is the empty string.     *)
(* An exception is [type, wraps]: its class and the class it wraps.        *)
(* A calendar date is its day of March 2025.                               *)
(***************************************************************************)
EXTENDS Naturals, Sequences, FiniteSets, TLC

VARIABLES
    mode,          \* "cli": run_cli; "streamlit": run_streamlit; "client": a
                   \* program that calls NQDataFetcher's methods itself
    pc,            \* where the run stands
    start_date,    \* the start-date picker's value
    end_date,      \* the end-date picker's value
    fetch_button,  \* st.button's value in the latest run of the script
    call,          \* the fetch operation in flight, its arguments
    vendor,        \* what the latest vendor call did
    ret,           \* how the latest fetch operation ended
    exp,           \* how the latest save_to_csv ended
    out,           \* what the current run has emitted, in order: log lines,
                   \* printed lines, page elements, file writes
    download,      \* the download button on the page
    fs,            \* the file system: directories, and files with content
    exitCode,      \* the process's exit status, once pc = "exit"
    saves          \* save_to_csv calls made so far

vars == <<mode, pc, start_date, end_date, fetch_button, call, vendor, ret,
          exp, out, download, fs, exitCode, saves>>

----------------------------------------------------------------------------
(* Bounds of the model *)

\* rows a vendor frame holds at most
MaxRows == 2
\* days before DEFAULT_START_TIME that the date pickers reach
PickerSpan == 1
\* save_to_csv calls in one run of a program that uses the client directly
MaxSaves == 2

\* the bars (event times) the vendor's rows are drawn from
Bars == {1, 2}

----------------------------------------------------------------------------
(* config.py *)

SCHEMA == "ohlcv-1m"
SCHEMA_STATS == "definition"
SCHEMA_TRADES == "trades"
SCHEMA_MBP == "mbp-10"

DEFAULT_START_TIME == [date |-> 21, tz |-> "UTC"]
DEFAULT_END_TIME == [date |-> 22, tz |-> "UTC"]

OUTPUT_FILE == <<"data", "nq_futures_data.csv">>

----------------------------------------------------------------------------
(* Sequences *)

Range(s) == {s[i] : i \in 1..Len(s)}

\* the position of x in s (x occurs in s)
IndexOf(s, x) == CHOOSE i \in 1..Len(s) : s[i] = x

RECURSIVE SeqsUpTo(_, _)
SeqsUpTo(S, n) ==
    IF n = 0 THEN {<<>>}
    ELSE LET shorter == SeqsUpTo(S, n - 1)
         IN  shorter \cup {Append(s, x) : s \in shorter, x \in S}

----------------------------------------------------------------------------
(* pandas *)

NoName == "<None>"

Val(k, v) == [k |-> k, v |-> v]

EmptyDf == [iname |-> NoName, index |-> <<>>, columns |-> <<>>, data |-> <<>>]

NRows(df) == Len(df.index)

\* df.set_index(c, inplace=True): column c becomes the index, the old index
\* is dropped
SetIndex(df, c) ==
    LET p == IndexOf(df.columns, c)
        Drop(s) == SubSeq(s, 1, p - 1) \o SubSeq(s, p + 1, Len(s))
    IN  [iname |-> c,
         index |-> [i \in 1..NRows(df) |-> df.data[i][p]],
         columns |-> Drop(df.columns),
         data |-> [i \in 1..NRows(df) |-> Drop(df.data[i])]]

\* df[cols] raises KeyError unless every label of cols is a column
CanSelect(df, cols) == Range(cols) \subseteq Range(df.columns)

\* df[cols]: the columns cols, in the order of cols
Select(df, cols) ==
    [df EXCEPT !.columns = cols,
               !.data = [i \in 1..NRows(df) |->
                            [j \in 1..Len(cols) |->
                                df.data[i][IndexOf(df.columns, cols[j])]]]]

\* pd.to_datetime on one index value: an integer is epoch nanoseconds, a
\* timestamp stays what it is
ToDatetime(x) == IF x.k = "int" THEN Val("ts", x.v) ELSE x

\* df.index = pd.to_datetime(df.index); the index keeps its name
ParseIndex(df) ==
    [df EXCEPT !.index = [i \in 1..NRows(df) |-> ToDatetime(df.index[i])]]

\* the label reset_index gives the column made of the index
IndexLabel(df) ==
    IF df.iname # NoName THEN df.iname
    ELSE IF "index" \in Range(df.columns) THEN "level_0"
    ELSE "index"

\* df.reset_index() raises ValueError when the label is already a column
CanResetIndex(df) == IndexLabel(df) \notin Range(df.columns)

\* df.reset_index(): the index becomes the first column, a RangeIndex
\* replaces it
ResetIndex(df) ==
    [iname |-> NoName,
     index |-> [i \in 1..NRows(df) |-> Val("int", i - 1)],
     columns |-> <<IndexLabel(df)>> \o df.columns,
     data |-> [i \in 1..NRows(df) |-> <<df.index[i]>> \o df.data[i]]]

\* df.rename(columns={from: to}, inplace=True)
Rename(df, from, to) ==
    [df EXCEPT !.columns = [j \in 1..Len(df.columns) |->
                               IF df.columns[j] = from THEN to
                               ELSE df.columns[j]]]

\* one cell as CSV text
Fmt(x) == [text |-> x.k, of |-> x.v]

\* df.to_csv(index=False): the header row is the columns, one line per row
ToCsvNoIndex(df) ==
    [header |-> df.columns,
     lines |-> [i \in 1..NRows(df) |->
                   [j \in 1..Len(df.columns) |-> Fmt(df.data[i][j])]]]

\* df.to_csv(): the index is written first, under its name (an empty label
\* for an unnamed index)
ToCsvWithIndex(df) ==
    [header |-> <<IF df.iname = NoName THEN "" ELSE df.iname>> \o df.columns,
     lines |-> [i \in 1..NRows(df) |->
                   <<Fmt(df.index[i])>> \o
                   [j \in 1..Len(df.columns) |-> Fmt(df.data[i][j])]]]

\* pd.read_csv(...).columns: the labels of the header row; an empty label
\* reads as "Unnamed: <position>", and a label seen k times before as
\* "<label>.<k>"
ReadCsvColumns(file) ==
    LET h == file.header
        Before(j) == Cardinality({i \in 1..(j - 1) : h[i] = h[j]})
    IN  [j \in 1..Len(h) |->
            IF h[j] = "" THEN "Unnamed: " \o ToString(j - 1)
            ELSE IF Before(j) > 0 THEN h[j] \o "." \o ToString(Before(j))
            ELSE h[j]]

----------------------------------------------------------------------------
(* The vendor: databento's Historical client *)

NoExc == [type |-> "none", wraps |-> "none"]

Exc(t) == [type |-> t, wraps |-> "none"]

\* the value of column c in the row of bar r
CellOf(lay, r, c) ==
    IF c \in {"ts_event", "ts_recv"} THEN Val(lay.tkind, r) ELSE Val(c, r)

\* the frame to_df() returns for the rows rs under layout lay
VendorFrame(lay, rs) ==
    [iname |-> lay.iname,
     index |-> [i \in 1..Len(rs) |->
                   IF lay.iname = NoName THEN Val("int", i - 1)
                   ELSE Val(lay.tkind, rs[i])],
     columns |-> lay.cols,
     data |-> [i \in 1..Len(rs) |->
                  [j \in 1..Len(lay.cols) |-> CellOf(lay, rs[i], lay.cols[j])]]]

\* layouts an ohlcv-1m frame may come in: ts_event as the index or as a
\* column, parsed or as integers, extra columns, any column order, a
\* required column missing
OhlcvLayouts ==
    { [iname |-> "ts_event", tkind |-> "ts",
       cols |-> <<"rtype", "open", "high", "low", "close", "volume", "symbol">>],
      [iname |-> NoName, tkind |-> "int",
       cols |-> <<"ts_event", "open", "high", "low", "close", "volume", "symbol">>],
      [iname |-> NoName, tkind |-> "ts",
       cols |-> <<"volume", "close", "ts_event", "open", "low", "high">>],
      [iname |-> "ts_recv", tkind |-> "ts",
       cols |-> <<"ts_event", "open", "high", "low", "close", "volume">>],
      [iname |-> "ts_event", tkind |-> "int",
       cols |-> <<"open", "high", "low", "close", "volume">>],
      [iname |-> "ts_event", tkind |-> "ts",
       cols |-> <<"open", "high", "low", "close">>] }

TradesLayouts ==
    { [iname |-> "ts_recv", tkind |-> "ts",
       cols |-> <<"ts_event", "price", "size", "side">>],
      [iname |-> "ts_event", tkind |-> "int",
       cols |-> <<"price", "size", "side">>] }

MbpLayouts ==
    { [iname |-> "ts_recv", tkind |-> "ts",
       cols |-> <<"ts_event", "bid_px_00", "ask_px_00">>],
      [iname |-> "ts_event", tkind |-> "ts",
       cols |-> <<"bid_px_00", "ask_px_00", "bid_sz_00", "ask_sz_00">>] }

\* what get_definition returns, as pd.DataFrame(data) lays it out: an
\* unnamed RangeIndex for records, the frame's own index for a frame
StatsLayouts ==
    { [iname |-> NoName, tkind |-> "ts",
       cols |-> <<"raw_symbol", "expiration">>],
      [iname |-> "ts_recv", tkind |-> "ts",
       cols |-> <<"raw_symbol", "expiration">>],
      [iname |-> NoName, tkind |-> "int",
       cols |-> <<"ts_event", "raw_symbol", "expiration">>] }

Layouts(schema) ==
    CASE schema = SCHEMA -> OhlcvLayouts
      [] schema = SCHEMA_STATS -> StatsLayouts
      [] schema = SCHEMA_TRADES -> TradesLayouts
      [] schema = SCHEMA_MBP -> MbpLayouts

VendorExceptions == {Exc("BentoClientError"), Exc("ConnectionError")}

\* every way a vendor call for schema may end
VendorOutcomes(schema) ==
    {[status |-> "returned", df |-> VendorFrame(lay, rs), exc |-> NoExc] :
        lay \in Layouts(schema), rs \in SeqsUpTo(Bars, MaxRows)}
    \cup {[status |-> "raised", df |-> EmptyDf, exc |-> e] :
             e \in VendorExceptions}

NoVendor == [status |-> "none", df |-> EmptyDf, exc |-> NoExc]

----------------------------------------------------------------------------
(* data_fetcher.py: NQDataFetcher *)

LogLine(level, msg) == [kind |-> "log", tag |-> level, arg |-> msg]
PrintLine(msg) == [kind |-> "print", tag |-> "stdout", arg |-> msg]
Element(what, msg) == [kind |-> "ui", tag |-> what, arg |-> msg]
FileWrite(msg) == [kind |-> "write", tag |-> "to_csv", arg |-> msg]

\* how an operation ends: returning df or raising exc, having emitted out
\* (and, for save_to_csv, left the file system as fs)
Returned(df, emitted) ==
    [status |-> "returned", df |-> df, exc |-> NoExc, out |-> emitted]

\* the exception caught is replaced by a new one that wraps it
RaiseWrapped(e) == [type |-> "RuntimeError", wraps |-> e.type]

\* a bare `raise` in an except clause: the exception caught goes on as it is
Reraise(e) == e

\* the except clause logs and goes on with an empty frame
RaisedSwallowed(e, msg) ==
    [status |-> "returned", df |-> EmptyDf, exc |-> NoExc,
     out |-> <<LogLine("error", msg)>>]

\* except Exception as e: logger.error(...); raise
Raised(e, msg) ==
    [status |-> "raised", df |-> EmptyDf, exc |-> Reraise(e),
     out |-> <<LogLine("error", msg)>>]

keep_cols == <<"open", "high", "low", "close", "volume">>

\* the set_index step left out
PromoteNothing(df) == df

\* if 'ts_event' in df.columns: df.set_index('ts_event', inplace=True)
PromoteTsEvent(df) ==
    IF "ts_event" \in Range(df.columns) THEN SetIndex(df, "ts_event") ELSE df

\* fetch_data once the vendor call has ended as v
fetch_data(v) ==
    IF v.status = "raised" THEN Raised(v.exc, "Error fetching OHLCV data")
    ELSE LET df == PromoteTsEvent(v.df)
         IN  IF ~CanSelect(df, keep_cols)
             THEN Raised(Exc("KeyError"), "Error fetching OHLCV data")
             ELSE Returned(ParseIndex(Select(df, keep_cols)),
                           <<LogLine("info", "Successfully fetched OHLCV records")>>)

\* fetch_statistics once get_definition has ended as v
fetch_statistics(v) ==
    IF v.status = "raised" THEN Raised(v.exc, "Error fetching statistics data")
    ELSE Returned(v.df,
                  <<LogLine("info", "Successfully fetched statistics records")>>)

\* fetch_trades once the vendor call has ended as v
fetch_trades(v) ==
    IF v.status = "raised" THEN Raised(v.exc, "Error fetching trades data")
    ELSE Returned(ParseIndex(PromoteTsEvent(v.df)),
                  <<LogLine("info", "Successfully fetched trade records")>>)

\* fetch_mbp10 once the vendor call has ended as v
fetch_mbp10(v) ==
    IF v.status = "raised" THEN Raised(v.exc, "Error fetching MBP-10 data")
    ELSE Returned(ParseIndex(PromoteTsEvent(v.df)),
                  <<LogLine("info", "Successfully fetched MBP-10 records")>>)

FetchOps == {"fetch_data", "fetch_statistics", "fetch_trades", "fetch_mbp10"}

SchemaOf(op) ==
    CASE op = "fetch_data" -> SCHEMA
      [] op = "fetch_statistics" -> SCHEMA_STATS
      [] op = "fetch_trades" -> SCHEMA_TRADES
      [] op = "fetch_mbp10" -> SCHEMA_MBP

Fetch(op, v) ==
    CASE op = "fetch_data" -> fetch_data(v)
      [] op = "fetch_statistics" -> fetch_statistics(v)
      [] op = "fetch_trades" -> fetch_trades(v)
      [] op = "fetch_mbp10" -> fetch_mbp10(v)

\* the line each fetch operation logs before it calls the vendor
FetchingLine(op) == LogLine("info", "Fetching")

\* the arguments of a fetch operation in flight; the range goes to the
\* vendor as ISO-8601 strings, to get_definition as calendar dates
Call(op, start_time, end_time) ==
    [op |-> op, start |-> start_time, end |-> end_time,
     schema |-> SchemaOf(op),
     as |-> IF op = "fetch_statistics" THEN "date" ELSE "isoformat"]

NoCall ==
    [op |-> "none", start |-> DEFAULT_START_TIME, end |-> DEFAULT_END_TIME,
     schema |-> "none", as |-> "none"]

----------------------------------------------------------------------------
(* The file system *)

\* os.path.dirname
Dirname(path) == SubSeq(path, 1, Len(path) - 1)

\* d and the directories above it
Ancestors(d) == {SubSeq(d, 1, n) : n \in 1..Len(d)}

\* what may fail in the file system during one save_to_csv
Faults == {"none", "makedirs", "write"}

\* os.makedirs(d, exist_ok=True) raises for the empty path, when a file is
\* in the way, and when the file system refuses
MakedirsError(f, d, fault) ==
    IF d = <<>> THEN Exc("FileNotFoundError")
    ELSE IF fault = "makedirs" THEN Exc("PermissionError")
    ELSE IF Ancestors(d) \cap DOMAIN f.files # {} THEN Exc("FileExistsError")
    ELSE NoExc

\* os.makedirs(d, exist_ok=True): d and every missing directory above it
Makedirs(f, d) == [f EXCEPT !.dirs = @ \cup Ancestors(d)]

\* open(path, "w") raises when the file system refuses and when path is a
\* directory
WriteError(f, path, fault) ==
    IF fault = "write" THEN Exc("PermissionError")
    ELSE IF path \in f.dirs THEN Exc("IsADirectoryError")
    ELSE NoExc

\* the file at path is created or truncated, and then holds content
WriteFile(f, path, content) ==
    [f EXCEPT !.files = (path :> content) @@ f.files]

\* the rename left out
df_to_save_unrenamed(df) == ResetIndex(df)

\* df_to_save of save_to_csv: the index as first column, called timestamp
\* when it is ts_event
df_to_save(df) ==
    LET r == ResetIndex(df)
    IN  IF r.columns[1] = "ts_event" THEN Rename(r, "ts_event", "timestamp")
        ELSE r

SaveRaised(f, e) ==
    [status |-> "raised", exc |-> Reraise(e), fs |-> f,
     out |-> <<LogLine("error", "Error saving data to CSV")>>]

\* save_to_csv(df, filepath) on the file system f
save_to_csv(f, df, filepath, fault) ==
    LET d == Dirname(filepath)
        f1 == Makedirs(f, d)
    IN  IF MakedirsError(f, d, fault) # NoExc
        THEN SaveRaised(f, MakedirsError(f, d, fault))
        ELSE IF ~CanResetIndex(df)
        THEN SaveRaised(f1, Exc("ValueError"))
        ELSE IF WriteError(f1, filepath, fault) # NoExc
        THEN SaveRaised(f1, WriteError(f1, filepath, fault))
        ELSE [status |-> "returned", exc |-> NoExc,
              fs |-> WriteFile(f1, filepath, ToCsvNoIndex(df_to_save(df))),
              out |-> <<FileWrite("filepath"), LogLine("info", "Data saved")>>]

\* how a save_to_csv call is recorded
Export(r, df, filepath, fault) ==
    [status |-> r.status, exc |-> r.exc, df |-> df, path |-> filepath,
     fault |-> fault]

NoExport ==
    [status |-> "none", exc |-> NoExc, df |-> EmptyDf, path |-> <<>>,
     fault |-> "none"]

----------------------------------------------------------------------------
(* The state after start-up *)

\* the paths a program hands to save_to_csv: the configured one, one with
\* no directory part, one two directories down
Paths == {OUTPUT_FILE, <<"out.csv">>, <<"exports", "2025", "nq.csv">>}

\* what an earlier run may have left at a path
StaleCsv == [header |-> <<"stale">>, lines |-> <<>>]

\* the directories that may exist at start-up
InitialDirs ==
    {D \in SUBSET UNION {Ancestors(Dirname(p)) : p \in Paths} :
        \A d \in D : Ancestors(d) \subseteq D}

\* at start-up any of the directories may exist, and either no file or
\* a stale file at every path whose directory exists
InitialFs ==
    UNION {{[dirs |-> D, files |-> [p \in F |-> StaleCsv]] :
               F \in {{}, {p \in Paths : Dirname(p) \in D \cup {<<>>}}}} :
           D \in InitialDirs}

NoRet == [op |-> "none", status |-> "none", df |-> EmptyDf, exc |-> NoExc]

Ret(op, r) == [op |-> op, status |-> r.status, df |-> r.df, exc |-> r.exc]

NoDownload ==
    [shown |-> FALSE, data |-> [header |-> <<>>, lines |-> <<>>],
     file_name |-> <<>>]

\* __main__: STREAMLIT_RUNNING chooses the front end
Init ==
    /\ mode \in {"cli", "streamlit", "client"}
    /\ pc = CASE mode = "cli" -> "start"
              [] mode = "streamlit" -> "idle"
              [] mode = "client" -> "ready"
    /\ start_date = DEFAULT_START_TIME.date
    /\ end_date = DEFAULT_END_TIME.date
    /\ fetch_button = FALSE
    /\ call = NoCall
    /\ vendor = NoVendor
    /\ ret = NoRet
    /\ exp = NoExport
    /\ out = <<>>
    /\ download = NoDownload
    /\ fs \in InitialFs
    /\ exitCode = 0
    /\ saves = 0

\* NQDataFetcher(): Historical(API_KEY) returns, or raises on a key it
\* rejects
CtorOutcomes == {NoExc, Exc("ValueError")}

InitializedLine == LogLine("info", "Initialized Databento client")

----------------------------------------------------------------------------
(* main.py: run_cli *)

\* run_cli returns and the interpreter ends
SuccessExitStatus == 0

\* sys.exit(0) in the except clause
ExitStatusAlwaysSuccess == SuccessExitStatus

\* sys.exit(1)
ErrorExitStatus == 1

CliErrorLine == LogLine("error", "Error in CLI mode")

\* if len(df) >= 0
HasDataOrNone(df) == NRows(df) >= 0

\* if len(df) > 0
HasData(df) == NRows(df) > 0

\* run_cli up to the vendor call of fetch_data
CliStart ==
    /\ mode = "cli" /\ pc = "start"
    /\ \E ctor \in CtorOutcomes :
          IF ctor = NoExc
          THEN /\ call' = Call("fetch_data", DEFAULT_START_TIME, DEFAULT_END_TIME)
               /\ out' = <<InitializedLine, FetchingLine("fetch_data")>>
               /\ pc' = "fetching"
               /\ UNCHANGED exitCode
          ELSE /\ out' = <<CliErrorLine>>
               /\ pc' = "exit"
               /\ exitCode' = ErrorExitStatus
               /\ UNCHANGED call
    /\ UNCHANGED <<mode, start_date, end_date, fetch_button, vendor, ret, exp,
                   download, fs, saves>>

\* run_cli from the end of the vendor call on
CliFetchDone ==
    /\ mode = "cli" /\ pc = "fetching"
    /\ \E v \in VendorOutcomes(call.schema), fault \in Faults :
          LET r == fetch_data(v)
              s == save_to_csv(fs, r.df, OUTPUT_FILE, fault)
          IN  /\ vendor' = v
              /\ ret' = Ret(call.op, r)
              /\ IF r.status = "raised"
                 THEN /\ out' = out \o r.out \o <<CliErrorLine>>
                      /\ exitCode' = ErrorExitStatus
                      /\ UNCHANGED <<fs, exp, saves>>
                 ELSE IF HasData(r.df)
                 THEN /\ fs' = s.fs
                      /\ exp' = Export(s, r.df, OUTPUT_FILE, fault)
                      /\ saves' = saves + 1
                      /\ IF s.status = "raised"
                         THEN /\ out' = out \o r.out \o s.out \o <<CliErrorLine>>
                              /\ exitCode' = ErrorExitStatus
                         ELSE /\ out' = out \o r.out \o s.out
                                        \o <<PrintLine("Data successfully saved")>>
                              /\ exitCode' = SuccessExitStatus
                 ELSE /\ out' = out \o r.out \o <<PrintLine("No data available")>>
                      /\ exitCode' = SuccessExitStatus
                      /\ UNCHANGED <<fs, exp, saves>>
    /\ call' = NoCall
    /\ pc' = "exit"
    /\ UNCHANGED <<mode, start_date, end_date, fetch_button, download>>

----------------------------------------------------------------------------
(* main.py: run_streamlit.  Streamlit runs the script again, from the top, *)
(* on every interaction with a widget; the page of the run before is       *)
(* cleared.  The fetch blocks the run, so no interaction is taken up       *)
(* while a fetch is in flight.                                             *)

\* the dates a picker offers: max_value is DEFAULT_END_TIME.date()
PickerDates ==
    (DEFAULT_START_TIME.date - PickerSpan)..DEFAULT_END_TIME.date

\* datetime.combine(d, datetime.min.time(), tzinfo=timezone.utc)
Combine(d) == [date |-> d, tz |-> "UTC"]

\* the fetch outside the if
ShouldFetchAlways(button) == TRUE

\* if fetch_button
ShouldFetch(button) == button

StreamlitErrorLine == LogLine("error", "Error in Streamlit app")

\* one run of the script with the widgets at sd, ed and button, up to the
\* vendor call of fetch_data
RunScript(sd, ed, button) ==
    /\ mode = "streamlit" /\ pc # "fetching"
    /\ start_date' = sd /\ end_date' = ed /\ fetch_button' = button
    /\ download' = NoDownload
    /\ vendor' = NoVendor /\ ret' = NoRet
    /\ IF ShouldFetch(button)
       THEN \E ctor \in CtorOutcomes :
               IF ctor = NoExc
               THEN /\ call' = Call("fetch_data", Combine(sd), Combine(ed))
                    /\ out' = <<InitializedLine, FetchingLine("fetch_data")>>
                    /\ pc' = "fetching"
               ELSE /\ out' = <<Element("error", ctor.type), StreamlitErrorLine>>
                    /\ pc' = "error"
                    /\ call' = NoCall
       ELSE /\ out' = <<>>
            /\ pc' = "idle"
            /\ call' = NoCall
    /\ UNCHANGED <<mode, exp, fs, exitCode, saves>>

PickStartDate ==
    \E d \in PickerDates \ {start_date} : RunScript(d, end_date, FALSE)

PickEndDate ==
    \E d \in PickerDates \ {end_date} : RunScript(start_date, d, FALSE)

ClickFetch == RunScript(start_date, end_date, TRUE)

ClickDownload ==
    /\ download.shown
    /\ RunScript(start_date, end_date, FALSE)

\* what the page shows for a result with rows
ResultElements ==
    <<Element("plotly_chart", "OHLC"), Element("dataframe", "Summary Statistics"),
      Element("dataframe", "Raw Data"), Element("download_button", "Download CSV")>>

\* st.download_button(label, df.to_csv(), f"nq_futures_data_{start_date}_{end_date}.csv", ...)
DownloadButton(df, sd, ed) ==
    [shown |-> TRUE, data |-> ToCsvWithIndex(df),
     file_name |-> <<"nq_futures_data", sd, ed>>]

\* the run from the end of the vendor call on
StreamlitFetchDone ==
    /\ mode = "streamlit" /\ pc = "fetching"
    /\ \E v \in VendorOutcomes(call.schema) :
          LET r == fetch_data(v)
          IN  /\ vendor' = v
              /\ ret' = Ret(call.op, r)
              /\ IF r.status = "raised"
                 THEN /\ out' = out \o r.out
                                \o <<Element("error", r.exc.type), StreamlitErrorLine>>
                      /\ download' = NoDownload
                      /\ pc' = "error"
                 ELSE IF HasData(r.df)
                 THEN /\ out' = out \o r.out \o ResultElements
                      /\ download' = DownloadButton(r.df, start_date, end_date)
                      /\ pc' = "displayed"
                 ELSE /\ out' = out \o r.out \o <<Element("warning", "No data available")>>
                      /\ download' = NoDownload
                      /\ pc' = "displayed"
    /\ call' = NoCall
    /\ UNCHANGED <<mode, start_date, end_date, fetch_button, exp, fs, exitCode,
                   saves>>

----------------------------------------------------------------------------
(* A program that uses NQDataFetcher itself: it fetches, then exports what *)
(* it fetched last.                                                        *)

\* a fetch operation up to its vendor call
ClientCall ==
    /\ mode = "client" /\ pc = "ready" /\ saves = 0
    /\ \E op \in FetchOps :
          /\ call' = Call(op, DEFAULT_START_TIME, DEFAULT_END_TIME)
          /\ out' = <<FetchingLine(op)>>
    /\ pc' = "fetching"
    /\ vendor' = NoVendor /\ ret' = NoRet
    /\ UNCHANGED <<mode, start_date, end_date, fetch_button, exp, download, fs,
                   exitCode, saves>>

\* the fetch operation from the end of the vendor call on
ClientFetchDone ==
    /\ mode = "client" /\ pc = "fetching"
    /\ \E v \in VendorOutcomes(call.schema) :
          LET r == Fetch(call.op, v)
          IN  /\ vendor' = v
              /\ ret' = Ret(call.op, r)
              /\ out' = out \o r.out
    /\ call' = NoCall
    /\ pc' = "ready"
    /\ UNCHANGED <<mode, start_date, end_date, fetch_button, exp, download, fs,
                   exitCode, saves>>

\* save_to_csv(df, filepath) with the result of the latest fetch
ClientSave ==
    /\ mode = "client" /\ pc = "ready"
    /\ ret.status = "returned" /\ saves < MaxSaves
    /\ \E filepath \in Paths, fault \in Faults :
          LET s == save_to_csv(fs, ret.df, filepath, fault)
          IN  /\ fs' = s.fs
              /\ exp' = Export(s, ret.df, filepath, fault)
              /\ out' = s.out
    /\ saves' = saves + 1
    /\ UNCHANGED <<mode, pc, start_date, end_date, fetch_button, call, vendor,
                   ret, download, exitCode>>

----------------------------------------------------------------------------

Next ==
    \/ CliStart
    \/ CliFetchDone
    \/ PickStartDate
    \/ PickEndDate
    \/ ClickFetch
    \/ ClickDownload
    \/ StreamlitFetchDone
    \/ ClientCall
    \/ ClientFetchDone
    \/ ClientSave

Spec == Init /\ [][Next]_vars

FairSpec == Spec /\ WF_vars(CliStart) /\ WF_vars(CliFetchDone)

----------------------------------------------------------------------------
(* What the properties below read off a state *)

OHLCV == <<"open", "high", "low", "close", "volume">>

\* the positions of out that hold line
Positions(line) == {i \in 1..Len(out) : out[i] = line}

Emitted(line) == Positions(line) # {}

\* the error lines of the Retrieval Client's own except clauses
ClientErrorLines ==
    {LogLine("error", m) :
        m \in {"Error fetching OHLCV data", "Error fetching statistics data",
               "Error fetching trades data", "Error fetching MBP-10 data"}}

SaveErrorLine == LogLine("error", "Error saving data to CSV")

\* the front end's own reaction to an exception
FrontEndErrorLines ==
    {CliErrorLine, StreamlitErrorLine} \cup
    {Element("error", t) :
        t \in {"BentoClientError", "ConnectionError", "KeyError", "ValueError"}}

\* line was emitted, and before every reaction of the front end
EmittedFirst(line) ==
    \E i \in Positions(line) :
        \A j \in 1..Len(out) : out[j] \in FrontEndErrorLines => i < j

\* a required OHLCV column is missing from the vendor's frame
ColumnMissing(df) == \E c \in Range(OHLCV) : c \notin Range(df.columns)

\* the exceptions the file system and pandas raise in save_to_csv
SaveExceptions ==
    {Exc(t) : t \in {"FileNotFoundError", "PermissionError", "FileExistsError",
                     "IsADirectoryError", "ValueError"}}

----------------------------------------------------------------------------
(* C1 *)

----------------------------------------------------------------------------
(* C2 *)

\* C2: when the vendor call raises, the fetch operation ends by raising and
\* hands no frame to its caller, and a front end writes no file in the step
\* that handles the failure nor in any step after it.
C2_FailedFetchReturnsNothingWritesNothing ==
    [][/\ vendor'.status = "raised" =>
             /\ ret'.status = "raised"
             /\ ret'.df = EmptyDf
             /\ ret'.exc # NoExc
             /\ mode # "client" => (fs' = fs /\ saves' = saves /\ exp' = exp)
       /\ (mode # "client" /\ ret.status = "raised") =>
             (fs' = fs /\ saves' = saves /\ exp' = exp)
       /\ mode = "streamlit" => fs' = fs]_vars

\* batch mode has ended after the vendor call raised
C2_Witness ==
    /\ mode = "cli" /\ pc = "exit"
    /\ vendor.status = "raised" /\ ret.status = "raised"

----------------------------------------------------------------------------
(* C3 *)

\* C3: in batch mode a fetch that returns no rows leads to no save_to_csv
\* call and leaves the file system as it was; "No data available" is printed
\* and the process ends with exit status 0.
C3_EmptyResultNoFileExitZero ==
    [][(mode = "cli" /\ pc' = "exit" /\ ret'.status = "returned"
            /\ NRows(ret'.df) = 0) =>
          /\ fs' = fs
          /\ saves' = 0
          /\ exp' = NoExport
          /\ \A i \in 1..Len(out') : out'[i].kind # "write"
          /\ \E i \in 1..Len(out') : out'[i] = PrintLine("No data available")
          /\ \A i \in 1..Len(out') : out'[i] # PrintLine("Data successfully saved")
          /\ \A i \in 1..Len(out') : out'[i] # CliErrorLine
          /\ exitCode' = 0]_vars

\* batch mode has ended on a fetch that returned no rows
C3_Witness ==
    /\ mode = "cli" /\ pc = "exit"
    /\ ret.status = "returned" /\ NRows(ret.df) = 0
    /\ vendor.status = "returned"

----------------------------------------------------------------------------
(* C4 *)

Written == {i \in 1..Len(out) : out[i].kind = "write"}

SavedLine == PrintLine("Data successfully saved")

NoDataLine == PrintLine("No data available")

\* the terminal state of batch mode
C4_Terminal ==
    (mode = "cli" /\ pc = "exit") =>
        LET ctorRaised == ~Emitted(InitializedLine)
            failed == ctorRaised \/ ret.status = "raised" \/ exp.status = "raised"
        IN  /\ exitCode \in {0, 1}
            /\ exitCode # 0 <=> failed
            /\ exitCode = 0 =>
                 \/ /\ saves = 1 /\ exp.status = "returned"
                    /\ Cardinality(Written) = 1
                    /\ OUTPUT_FILE \in DOMAIN fs.files
                    /\ fs.files[OUTPUT_FILE] # StaleCsv
                    /\ Emitted(SavedLine) /\ ~Emitted(NoDataLine)
                    /\ \A i \in Positions(SavedLine) : \E j \in Written : j < i
                 \/ /\ saves = 0 /\ Written = {}
                    /\ Emitted(NoDataLine) /\ ~Emitted(SavedLine)
            /\ exitCode = 0 => ~Emitted(CliErrorLine)
            /\ failed =>
                 /\ out[Len(out)] = CliErrorLine
                 /\ ~Emitted(SavedLine) /\ ~Emitted(NoDataLine)

\* C4: batch mode ends, and where it ends nothing follows; it ends with exit
\* status 0 having written one file and then printed its path, or having
\* printed "No data available"; it ends with a non-zero status exactly when
\* the constructor, the fetch or the export raised, the error logged last and
\* no success message printed.
C4_BatchEndsInOneTerminalState ==
    /\ [](C4_Terminal)
    /\ [][pc # "exit"]_vars
    /\ (mode = "cli") ~> (pc = "exit")

\* batch mode has ended with status 0 and the file written
C4_Witness ==
    /\ mode = "cli" /\ pc = "exit" /\ exitCode = 0
    /\ saves = 1 /\ OUTPUT_FILE \in DOMAIN fs.files

----------------------------------------------------------------------------
(* C5 *)

Shown(what) == \E i \in 1..Len(out) : out[i].kind = "ui" /\ out[i].tag = what

\* what each state of the interactive session shows
C5_States ==
    mode = "streamlit" =>
        /\ pc \in {"idle", "fetching", "displayed", "error"}
        /\ call.op # "none" <=> pc = "fetching"
        /\ pc = "fetching" => fetch_button /\ call.op = "fetch_data"
        /\ ~fetch_button => pc = "idle" /\ out = <<>> /\ ~download.shown
        /\ pc = "displayed" =>
             /\ ret.status = "returned"
             /\ IF NRows(ret.df) = 0
                THEN /\ Shown("warning")
                     /\ ~Shown("plotly_chart") /\ ~Shown("dataframe")
                     /\ ~Shown("download_button") /\ ~download.shown
                ELSE /\ ~Shown("warning")
                     /\ Shown("plotly_chart") /\ Shown("dataframe")
                     /\ Shown("download_button") /\ download.shown
             /\ ~Shown("error")
        /\ pc = "error" =>
             /\ ret.status \in {"raised", "none"}
             /\ Shown("error")
             /\ ret.status = "raised" => Emitted(Element("error", ret.exc.type))
             /\ out[Len(out)] = StreamlitErrorLine
             /\ ENABLED ClickFetch

\* the transitions of the interactive session
C5_Steps ==
    mode = "streamlit" =>
        /\ (pc # "fetching" /\ pc' = "fetching") => fetch_button'
        /\ pc = "fetching" =>
             \/ pc' = "displayed" /\ ret'.status = "returned"
             \/ pc' = "error" /\ ret'.status = "raised"
        /\ (pc = "fetching" /\ vendor'.status = "returned"
                /\ ~ColumnMissing(vendor'.df)) => pc' = "displayed"
        /\ (pc = "fetching" /\ vendor'.status = "raised") => pc' = "error"
        /\ exitCode' = exitCode /\ mode' = mode

\* C5: the interactive session starts a fetch only in a run in which the
\* button is pressed; when fetch_data returns the page is the result's (for
\* no rows the warning alone, without chart, tables or download button);
\* when fetch_data or the constructor raises the error is shown and logged,
\* the session goes on, and a fetch can be triggered again.
C5_InteractiveTransitions == [](C5_States) /\ [][C5_Steps]_vars

\* a fetch of the interactive session has raised and the error is on the page
C5_Witness ==
    /\ mode = "streamlit" /\ pc = "error"
    /\ ret.status = "raised" /\ Shown("error")

----------------------------------------------------------------------------
(* C6 *)

\* the vendor delivered ts_event, as a column or as the index
TsEventDelivered(df) ==
    "ts_event" \in Range(df.columns) \/ df.iname = "ts_event"

\* the event time of row i of the vendor's frame
TsEventOf(df, i) ==
    IF "ts_event" \in Range(df.columns)
    THEN df.data[i][IndexOf(df.columns, "ts_event")]
    ELSE df.index[i]

\* C6: when the vendor delivers ts_event, a fetch_data that returns hands
\* back the columns open, high, low, close, volume in that order and no
\* other, the vendor's rows in the vendor's order, and as index, named
\* ts_event, the parsed event time of each row.
C6_OhlcvShape ==
    (ret.op = "fetch_data" /\ ret.status = "returned"
        /\ TsEventDelivered(vendor.df)) =>
        /\ ret.df.columns = <<"open", "high", "low", "close", "volume">>
        /\ NRows(ret.df) = NRows(vendor.df)
        /\ Len(ret.df.data) = NRows(vendor.df)
        /\ ret.df.iname = "ts_event"
        /\ \A i \in 1..NRows(vendor.df) :
              /\ ret.df.index[i].k = "ts"
              /\ ret.df.index[i].v = TsEventOf(vendor.df, i).v
              /\ Len(ret.df.data[i]) = 5
              /\ \A j \in 1..5 :
                    ret.df.data[i][j] =
                        vendor.df.data[i][IndexOf(vendor.df.columns, OHLCV[j])]

\* fetch_data has returned two rows of a frame that had ts_event as a column
\* and a column to drop
C6_Witness ==
    /\ ret.op = "fetch_data" /\ ret.status = "returned"
    /\ NRows(ret.df) = 2
    /\ "ts_event" \in Range(vendor.df.columns)
    /\ "symbol" \in Range(vendor.df.columns)

----------------------------------------------------------------------------
(* C7 *)

\* the file the latest save_to_csv wrote, read back
ReadBack == ReadCsvColumns(fs.files[exp.path])

\* C7 as stated: whatever the index of the frame exported, the file read back
\* has "timestamp" as first column and then the frame's columns in order.
C7_FirstColumnAlwaysTimestamp ==
    exp.status = "returned" =>
        /\ ReadBack[1] = "timestamp"
        /\ Tail(ReadBack) = exp.df.columns

\* C7 as amended: the file read back has the frame's columns in order after
\* a first column that is "timestamp" when the frame's index is named
\* ts_event, the index's own name when it has another, and "index" when it
\* has none ("level_0" when "index" is a column already).
C7_FirstColumnIsRenamedTsEventOrIndexName ==
    exp.status = "returned" =>
        /\ exp.path \in DOMAIN fs.files
        /\ ReadBack[1] =
              (IF exp.df.iname = "ts_event" THEN "timestamp"
               ELSE IF exp.df.iname # NoName THEN exp.df.iname
               ELSE IF "index" \in Range(exp.df.columns) THEN "level_0"
               ELSE "index")
        /\ Tail(ReadBack) = exp.df.columns

\* a frame with the index ts_event has been exported
C7_Witness ==
    /\ exp.status = "returned" /\ exp.df.iname = "ts_event"
    /\ ret.op = "fetch_trades" /\ NRows(exp.df) = 2

----------------------------------------------------------------------------
(* C8 *)

\* C8: on a file system that refuses nothing, save_to_csv returns for every
\* path, with or without a directory part; afterwards every directory above
\* the file exists and the file holds the frame's CSV, whatever was there
\* before (so also after a second call with the same frame and path).
C8_ExportSucceedsForEveryPath ==
    (exp.status # "none" /\ exp.fault = "none") =>
        /\ exp.status = "returned"
        /\ Ancestors(Dirname(exp.path)) \subseteq fs.dirs
        /\ exp.path \in DOMAIN fs.files
        /\ Tail(ReadBack) = exp.df.columns
        /\ fs.files[exp.path].lines =
              [i \in 1..NRows(exp.df) |->
                  <<Fmt(exp.df.index[i])>> \o
                  [j \in 1..Len(exp.df.columns) |-> Fmt(exp.df.data[i][j])]]

----------------------------------------------------------------------------
(* C9 *)

\* C9: for a result with rows, the CSV behind the download button is the one
\* save_to_csv writes for the same frame, header ("timestamp" first, then open, high, low, close,
\* volume) and lines alike, and the file name carries the two dates picked.
C9_DownloadSameAsExport ==
    (mode = "streamlit" /\ pc = "displayed" /\ download.shown) =>
        /\ download.data.header =
              <<"timestamp", "open", "high", "low", "close", "volume">>
        /\ download.data.header = ToCsvNoIndex(df_to_save(ret.df)).header
        /\ download.data.lines = ToCsvNoIndex(df_to_save(ret.df)).lines
        /\ download.file_name = <<"nq_futures_data", start_date, end_date>>

----------------------------------------------------------------------------
(* C10 *)

\* C10: the range handed to a fetch operation has start <= end, and both
\* instants carry a time zone.
C10_RangeOrderedAndAware ==
    call.op # "none" =>
        /\ call.start.date <= call.end.date
        /\ call.start.tz # "naive" /\ call.end.tz # "naive"

====
